---- MODULE Spec2Model ----
(***************************************************************************)
(* Model of the resumable OneDrive upload engine (src/uploader.py), its    *)
(* batch planner upload_items, the worker thread of src/ui_main.py and the *)
(* process start of src/main.py.                                           *)
(*                                                                         *)
(* Byte counts are real byte counts.  Python floats that only ever hold    *)
(* whole byte counts (file_size, uploaded_bytes) are integers here.        *)
(* Python's None is the integer None == -1 wherever the other values of    *)
(* the variable are natural numbers.                                       *)
(***************************************************************************)
EXTENDS Integers, Sequences, FiniteSets, TLC

None == 0 - 1

MiB == 1024 * 1024

\* ---------------------------------------------------------------- bounds
\* size in MiB of the large file "B" of the model's file system
BigFileMiB == 20
\* upload runs (presses of Start) in one behaviour of SpecResume
MaxRuns == 2
\* faults in one behaviour of Spec: lost requests or responses, error
\* statuses, expired sessions, wrong or unparseable offsets, failed logins,
\* a progress sink that raises
MaxFaults == 2
\* resolution of st_mtime: ticks per second
TicksPerSecond == 2
\* largest modification time (in ticks) a file reaches in the model
MaxMtime == 2
\* faults (lost requests, unclassified answers, failed status queries) the
\* retry specification injects into one transfer
MaxRetryFaults == 5
\* size in MiB of the file of the retry specification: six initial chunks
LongFileMiB == 48
\* worker threads the window creates in the window specification
MaxWorkers == 3

\* ------------------------------------------------- constants of uploader.py
_CHUNK_ALIGN == 320 * 1024
_MIN_CHUNK == 2 * 1024 * 1024
_MAX_CHUNK == 60 * 1024 * 1024
_TARGET_CHUNK_SECONDS == 8
_ADJUST_EVERY_N_CHUNKS == 2

Min(a, b) == IF a < b THEN a ELSE b
Max(a, b) == IF a > b THEN a ELSE b
Abs(a) == IF a < 0 THEN 0 - a ELSE a

\* Python's  a & b  on non-negative integers
RECURSIVE BitAnd(_, _)
BitAnd(a, b) ==
    IF a = 0 \/ b = 0 THEN 0
    ELSE (a % 2) * (b % 2) + 2 * BitAnd(a \div 2, b \div 2)

\* max(0.0, min(float(x), float(file_size)))
Clamp(x, fs) == Max(0, Min(x, fs))

_round_to_320k(n_bytes) ==
    IF BitAnd(n_bytes, _CHUNK_ALIGN - 1) = 0
    THEN Max(n_bytes, _CHUNK_ALIGN)
    ELSE ((n_bytes + _CHUNK_ALIGN - 1) \div _CHUNK_ALIGN) * _CHUNK_ALIGN

\* the last threshold, 2 GiB, is compared in KiB: 2^31 is not a TLC integer
_initial_adaptive_chunk_size(file_size) ==
    LET cs == IF file_size < 128 * 1024 * 1024 THEN 8 * 1024 * 1024
              ELSE IF file_size < 512 * 1024 * 1024 THEN 12 * 1024 * 1024
              ELSE IF file_size \div 1024 < 2 * 1024 * 1024 THEN 16 * 1024 * 1024
              ELSE 24 * 1024 * 1024
    IN  Min(Max(_round_to_320k(cs), _MIN_CHUNK), _MAX_CHUNK)

\* A Range/Content-Range header is modelled by the <end> of "bytes 0-<end>/..";
\* None is a missing header or one the parser rejects (no '-', empty or
\* non-numeric end).
_parse_uploaded_from_headers(range_header) ==
    IF range_header = None THEN None ELSE range_header + 1

\* The body's nextExpectedRanges is modelled by the sequence of the <start>s
\* of its well-formed entries (malformed entries are skipped by the parser).
RECURSIVE SeqMin(_)
SeqMin(s) ==
    IF Len(s) = 1 THEN s[1] ELSE Min(s[1], SeqMin(Tail(s)))

_parse_next_start(ranges) ==
    IF ranges = <<>> THEN 0 ELSE SeqMin(ranges)


\* ------------------------------------------------------------ file system
Paths == {"A", "B", "C", "D"}

\* sizes of the local files when the program is installed
InitialSize(p) ==
    IF p = "A" THEN 3 * MiB ELSE IF p = "B" THEN BigFileMiB * MiB
    ELSE IF p = "D" THEN LongFileMiB * MiB ELSE 0

\* the file lists the user submits (selected_paths of the worker)
FileLists == { <<"A", "B", "C">>, <<"C", "B", "C">>, <<"A", "C">> }

\* remote path upload_items derives for a local file (base_dir "" and
\* remote_base ""): the file's base name
RemoteOf(p) == p

\* the empty dict
EmptyMap == [k \in {} |-> 0]

NoKey == [path |-> "", remote |-> "", size |-> 0, mtime |-> 0]

VARIABLES
    files,      \* local files: path -> [size, mtime], mtime in ticks
    sessions,   \* SESS_DIR/<key>.json: session key -> descriptor
    stateFile,  \* STATE_FILE: <<>> when absent, << files dict >> when present
    srv,        \* remote service: upload URL i -> the session behind it
    pc,         \* position of the worker thread
    stop,       \* UploadWorker._stop
    batch,      \* locals of upload_items
    uf,         \* locals of upload_file
    hist,       \* observations: what the callbacks and the wire have seen
    budget,     \* faults and runs the environment may still produce
    ui          \* MainWindow and its worker threads, the transfer of a
                \* worker reduced to its begin and its end

vars == <<files, sessions, stateFile, srv, pc, stop, batch, uf, hist, budget, ui>>

\* int(st.st_mtime): whole seconds of a modification time given in ticks
MtimeSeconds(mtime) == mtime \div TicksPerSecond

\* the string that _session_key hashes; sha256 is taken as injective
_session_key(local_path, remote_path, file_size) ==
    [path   |-> local_path,
     remote |-> remote_path,
     size   |-> file_size,
     mtime  |-> MtimeSeconds(files[local_path].mtime)]

\* variant of _load_session: a descriptor that cannot be read is used anyway
_load_session_unchecked(key, ok) ==
    IF key \in DOMAIN sessions THEN sessions[key].uploadUrl ELSE None

\* _load_session(key) or {} followed by .get('uploadUrl').  ok: the stored
\* file can be read and parsed; otherwise the except branch returns None.
_load_session(key, ok) ==
    IF ok /\ key \in DOMAIN sessions THEN sessions[key].uploadUrl ELSE None

\* variant of _save_session: the write is left out
_save_session_skipped(store, key, url, uploaded, ok) == store

\* _save_session(key, data): the store after the write.  ok: write_text
\* succeeds; otherwise the except branch leaves the store as it is.
_save_session(store, key, url, uploaded, ok) ==
    IF ~ok THEN store
    ELSE [k \in (DOMAIN store) \cup {key} |->
            IF k = key THEN [uploadUrl |-> url, uploaded |-> uploaded] ELSE store[k]]

\* variant of _delete_session: the descriptor is left in place
_delete_session_skipped(store, key) == store

\* _delete_session(key): the store after the unlink
_delete_session(store, key) ==
    [k \in (DOMAIN store) \ {key} |-> store[k]]

\* _load_batch_state().get("files", {})
_load_batch_state == IF stateFile = <<>> THEN EmptyMap ELSE stateFile[1]

\* dict.get / dict assignment on the files dict of the batch state
StatusOf(fstates, p) == IF p \in DOMAIN fstates THEN fstates[p] ELSE "none"
SetStatus(fstates, p, st) ==
    [k \in (DOMAIN fstates) \cup {p} |-> IF k = p THEN st ELSE fstates[k]]

RECURSIVE SumSizes(_)
SumSizes(lst) ==
    IF lst = <<>> THEN 0 ELSE lst[1].size + SumSizes(Tail(lst))

NoBatch ==
    [abs_file_list |-> <<>>, idx |-> 0, total_bytes |-> 0, file_states |-> EmptyMap,
     completed_bytes |-> 0, _last_overall |-> 0]

NoUpload ==
    [path |-> "", token |-> "", headers_json |-> "", file_size |-> 0,
     chunk_size |-> 0, key |-> NoKey, upload_url |-> None, uploaded_bytes |-> 0,
     last_confirmed_uploaded |-> 0, fpos |-> 0, n |-> 0, start |-> 0,
     chunks_since_save |-> 0, chunks_since_adjust |-> 0, ema_speed |-> None,
     backoff |-> 1, ret |-> None]

NoHist ==
    [pfLast |-> None,      \* last offset given to progress_fn by this upload_file
     cbLast |-> None,      \* last uploadedBytes given to progress_cb in this run
     sent |-> FALSE,       \* this upload_file has sent a chunk PUT
     firstStart |-> None,  \* range start of its first chunk PUT
     firstRead |-> None,   \* file position its first chunk was read from
     readPos |-> None,     \* file position the chunk in flight was read from
     wire |-> "",          \* what became of the chunk in flight on the service
     resumed |-> FALSE,    \* this upload_file loaded a stored session
     q0 |-> None,          \* offset the initial QueryStatus reported, if it succeeded
     q0Failed |-> FALSE,   \* the initial QueryStatus raised or was not 200/201/202,
                           \* and no chunk has been sent since
     checkpoint |-> None,  \* "uploaded" of the descriptor this upload_file
                           \* loaded, until its first chunk is sent
     completed |-> FALSE,  \* a chunk PUT of this upload_file was answered 200/201
     priorUrl |-> None,    \* session open on the service for the file when
                           \* this upload_file began
     priorConfirmed |-> 0, \* and the offset the service had confirmed in it
     tried |-> <<>>,       \* list positions passed to upload_file in this run
     halted |-> 0,         \* list position of the file that halted this run
     startStates |-> EmptyMap, \* files dict loaded when this run started
     stopSeen |-> FALSE,   \* this upload_file found should_stop() set
     auth |-> "",          \* outcome of the silent token refresh after the
                           \* last 401/403 of this upload_file: "refreshed",
                           \* "failed", or "" when there was none
     recreated |-> None,   \* offset this upload_file had confirmed when it
                           \* replaced its session after a 404
     transient |-> FALSE,  \* the last chunk PUT of this upload_file ended in a
                           \* transport exception or an unclassified status
     recKind |-> "",       \* how the chunk PUT before the coming one ended,
                           \* when its handler re-queried the offset:
                           \* "exception", "conflict", or ""
     recPrev |-> None,     \* uploaded_bytes when that handler began
     recRep |-> None,      \* offset its QueryStatus reported, None if it failed
     sinkRaised |-> FALSE, \* progress_cb raised in this run
     unloaded |-> None,    \* upload URL of the stored descriptor that this
                           \* upload_file failed to load
     saveFailed |-> FALSE, \* a _save_session of this upload_file failed
     createFailed |-> 0,   \* list position of the file whose CreateSession
                           \* was answered with a status other than 200/201
     finished |-> "",      \* argument of the worker's finished signal:
                           \* "true", "false", or "" while none was emitted
     restarted |-> FALSE,  \* the process was restarted while upload state was stored
     seen |-> "",          \* how this upload_file saw its last chunk PUT end:
                           \* "exception", "conflict", "auth", "notfound",
                           \* "complete", "accepted", "other"; "" while a
                           \* chunk is in flight or none was sent
     stopAt |-> 0,         \* list position at which upload_items found
                           \* should_stop() set before a file, 0 if it did not
     report |-> "",        \* final log line of the run: "all" (all files
                           \* uploaded), "incomplete", or "" before it
     sameList |-> TRUE,    \* every run since the process started was given
                           \* the same file list
     postToken |-> ""]     \* token in the Authorization header of the
                           \* CreateSession request that recreates the session
                           \* after a 404, "" if none was sent

\* MainWindow.__init__ (lines 88-111): Start enabled, Stop disabled, no worker
NoUi ==
    [worker |-> 0,          \* self.worker: 0 is None, else the worker's number
     made |-> 0,            \* UploadWorker objects created so far
     st |-> [w \in 1..MaxWorkers |-> "new"],
                            \* where each worker thread is: "new" (not
                            \* started), "uploading" (inside upload_items),
                            \* "emitted" (finished signal emitted, run() not
                            \* yet left), "ended" (thread finished)
     stopped |-> [w \in 1..MaxWorkers |-> FALSE],   \* UploadWorker._stop
     signals |-> <<>>,      \* finished signals queued for the main thread
     btn_start |-> TRUE,    \* btn_start.isEnabled()
     btn_stop |-> FALSE,    \* btn_stop.isEnabled()
     warned |-> FALSE,      \* the last Start press showed the "Busy" warning
     crashed |-> FALSE]     \* the process was aborted

Init ==
    /\ files = [p \in Paths |-> [size |-> InitialSize(p), mtime |-> 0]]
    /\ sessions = EmptyMap
    /\ stateFile = <<>>
    /\ srv = <<>>
    /\ pc = "idle"
    /\ stop = FALSE
    /\ batch = NoBatch
    /\ uf = NoUpload
    /\ hist = NoHist
    /\ ui = NoUi
    /\ budget = [faults |-> MaxFaults, runs |-> 1]

\* ---------------------------------------------------------- remote service
\* CreateSession answered 200/201: a new upload URL.  The service keeps the
\* next expected offset; key and version note for which session key and for
\* which state (modification time) of the local file the session was made.
Created(s, key) ==
    Append(s, [key |-> key, version |-> files[key.path].mtime,
               next |-> 0, live |-> TRUE, intact |-> TRUE])

\* the most recent session still open on the service for a local file and
\* its destination, or None
OpenFor(p) ==
    LET open == { i \in 1..Len(srv) :
                    srv[i].live /\ srv[i].key.path = p /\ srv[i].key.remote = RemoteOf(p) }
    IN  IF open = {} THEN None ELSE CHOOSE i \in open : \A j \in open : j <= i

\* The service receives PUT url, Content-Range start..start+n-1/total, with
\* the bytes the engine read at read_pos: the new service state and the
\* status it answers.  A range that does not start at the expected offset is
\* refused; the last range closes the session.
Deliver(url, start, n, total, read_pos) ==
    IF ~srv[url].live THEN [srv |-> srv, wire |-> "404"]
    ELSE IF start # srv[url].next \/ start + n > total THEN [srv |-> srv, wire |-> "416"]
    ELSE [srv  |-> [srv EXCEPT ![url].next = start + n,
                               ![url].intact = @ /\ read_pos = start,
                               ![url].live = start + n < total],
          wire |-> IF start + n < total THEN "202" ELSE "201"]

\* A QueryStatus (GET upload_url) outcome: status 0 stands for an exception
\* raised by session.get; hdr is the Range/Content-Range header; json_ok
\* tells whether q.json() parses; ranges is its nextExpectedRanges.
SuccessStatus == {200, 201, 202}

QueryFailures ==
    { [status |-> s, hdr |-> None, json_ok |-> FALSE, ranges |-> <<>>] :
        s \in {0, 404, 503} }

QuerySuccesses(offs, top) ==
    { [status |-> 200, hdr |-> o - 1, json_ok |-> TRUE, ranges |-> <<>>] :
        o \in offs \ {0} }
    \cup { [status |-> 200, hdr |-> None, json_ok |-> FALSE, ranges |-> <<>>] }
    \cup { [status |-> 200, hdr |-> None, json_ok |-> TRUE, ranges |-> r] :
        r \in {<<>>} \cup { <<o>> : o \in offs } \cup { <<top, o>> : o \in offs } }

QueryResponses(offs, top) == QueryFailures \cup QuerySuccesses(offs, top)

\* the offset a successful response reports, None when it reports none
Reported(q) ==
    IF q.status \notin SuccessStatus THEN None
    ELSE IF _parse_uploaded_from_headers(q.hdr) # None
         THEN _parse_uploaded_from_headers(q.hdr)
    ELSE IF q.json_ok /\ q.ranges # <<>> THEN _parse_next_start(q.ranges)
    ELSE None

\* a response that tells the state of the session behind url
Truthful(q, url) ==
    IF srv[url].live THEN Reported(q) = srv[url].next ELSE q.status = 404

\* faults charged for a response
QCost(q, url) == IF Truthful(q, url) THEN 0 ELSE 1

\* offsets a response may carry: the true one, none, the engine's current
\* one (a duplicate), and one past the end of the file
Offsets(u) ==
    {0, u.uploaded_bytes, u.file_size + 1}
    \cup (IF srv[u.upload_url].live THEN {srv[u.upload_url].next} ELSE {})

Responses == QueryResponses(Offsets(uf), uf.file_size + 1)

\* canonical response where a handler does not look at one
NoResponse == [status |-> 0, hdr |-> None, json_ok |-> FALSE, ranges |-> <<>>]

\* a progress sink that raises is a fault
SinkCost(sink_ok) == IF sink_ok THEN 0 ELSE 1

\* the faults of a step are within the budget, and are charged
Charge(cost) ==
    /\ cost <= budget.faults
    /\ budget' = [budget EXCEPT !.faults = @ - cost]

\* The block that follows every QueryStatus (lines 373-391 and its copies in
\* the loop): the new <<uploaded_bytes, last_confirmed_uploaded>>.  The copies
\* inside the loop clamp uploaded_bytes once more at the end (final = TRUE).
Requery(q, up, lc, fs, final) ==
    IF q.status \notin SuccessStatus THEN <<up, lc>>
    ELSE LET hdr_pos == _parse_uploaded_from_headers(q.hdr)
             up1 == IF hdr_pos # None /\ hdr_pos >= lc THEN hdr_pos ELSE lc
             up2 == Clamp(up1, fs)
         IN  IF hdr_pos # None \/ ~q.json_ok
             THEN <<up2, up2>>
             ELSE LET t_next == _parse_next_start(q.ranges)
                      up3 == IF t_next >= up2 THEN t_next ELSE up2
                  IN  << IF final THEN Clamp(up3, fs) ELSE up3, up3 >>

\* pf(uploaded_bytes, ...): the overall value it hands to progress_cb
PfOverall(b, uploaded_bytes) ==
    Max(b.completed_bytes + uploaded_bytes, b._last_overall)

\* ------------------------------------------------------------ upload_items
Item == batch.abs_file_list[batch.idx]

\* MainWindow.start_upload -> UploadWorker.run -> upload_items, up to its loop
StartUpload(lst) ==
    /\ pc = "idle"
    /\ budget.runs > 0
    /\ budget' = [budget EXCEPT !.runs = @ - 1]
    /\ LET afl == [i \in 1..Len(lst) |-> [path |-> lst[i], size |-> files[lst[i]].size]]
       IN  batch' = [abs_file_list |-> afl, idx |-> 1, total_bytes |-> SumSizes(afl),
                     file_states |-> _load_batch_state, completed_bytes |-> 0,
                     _last_overall |-> 0]
    /\ stop' = FALSE
    /\ pc' = "items"
    /\ uf' = NoUpload
    /\ hist' = [NoHist EXCEPT !.startStates = _load_batch_state,
                              !.restarted = hist.restarted,
                              !.sameList = /\ hist.sameList
                                           /\ \/ batch.abs_file_list = <<>>
                                              \/ lst = [i \in 1..Len(batch.abs_file_list)
                                                          |-> batch.abs_file_list[i].path]]
    /\ UNCHANGED <<files, sessions, stateFile, srv>>
    /\ UNCHANGED ui

\* variant of AlreadyDone: the skip of finished files left out
AlreadyDoneNever(fstates, p) == FALSE

\* file_states.get(abs_path) == "done"
AlreadyDone(fstates, p) == StatusOf(fstates, p) = "done"

\* loop head of upload_items: should_stop() is set, break
ItemsStop ==
    /\ pc = "items" /\ batch.idx <= Len(batch.abs_file_list)
    /\ stop
    /\ pc' = "final"
    /\ hist' = [hist EXCEPT !.stopAt = batch.idx]
    /\ UNCHANGED <<files, sessions, stateFile, srv, stop, batch, uf, budget>>
    /\ UNCHANGED ui

\* loop head of upload_items: the file is already done, continue
ItemsSkip ==
    /\ pc = "items" /\ batch.idx <= Len(batch.abs_file_list)
    /\ ~stop
    /\ AlreadyDone(batch.file_states, Item.path)
    /\ batch' = [batch EXCEPT !.idx = @ + 1]
    /\ UNCHANGED <<files, sessions, stateFile, srv, pc, stop, uf, hist, budget>>
    /\ UNCHANGED ui

\* variant of CreateRaises: a refused CreateSession is not noticed
CreateRaisesNever(created) == FALSE

\* "if r.status_code not in (200, 201): raise RuntimeError"
CreateRaises(created) == ~created

\* upload_items calls upload_file, which runs up to its initial QueryStatus:
\* token, file size, initial chunk size, session key, stored session or
\* CreateSession.  silent/interactive: whether the token calls give a token;
\* created: whether CreateSession answers 200/201; load_ok, save_ok: whether
\* the descriptor file can be read, and written after CreateSession.
UploadFileBegin(silent, interactive, created, load_ok, save_ok) ==
    /\ pc = "items" /\ batch.idx <= Len(batch.abs_file_list)
    /\ ~stop
    /\ ~AlreadyDone(batch.file_states, Item.path)
    /\ LET p == Item.path
           file_size == files[p].size
           key == _session_key(p, RemoteOf(p), file_size)
           stored == _load_session(key, load_ok)
           u0 == [NoUpload EXCEPT !.path = p, !.token = "t0", !.headers_json = "t0",
                     !.file_size = file_size,
                     !.chunk_size = _initial_adaptive_chunk_size(file_size),
                     !.key = key]
           h0 == [hist EXCEPT !.pfLast = None, !.sent = FALSE, !.readPos = None,
                     !.firstStart = None, !.firstRead = None,
                     !.wire = "", !.resumed = (stored # None), !.q0 = None,
                     !.q0Failed = FALSE,
                     !.checkpoint = IF stored # None THEN sessions[key].uploaded
                                    ELSE None,
                     !.completed = FALSE, !.stopSeen = FALSE, !.auth = "",
                     !.recreated = None, !.transient = FALSE,
                     !.recKind = "", !.recPrev = None, !.recRep = None,
                     !.seen = "", !.postToken = "",
                     !.unloaded = IF ~load_ok /\ key \in DOMAIN sessions
                                  THEN sessions[key].uploadUrl ELSE None,
                     !.saveFailed = (silent \/ interactive) /\ stored = None
                                    /\ created /\ ~save_ok,
                     !.priorUrl = OpenFor(p),
                     !.priorConfirmed = IF OpenFor(p) = None THEN 0
                                        ELSE srv[OpenFor(p)].next,
                     !.tried = Append(@, batch.idx),
                     !.createFailed = IF (silent \/ interactive) /\ stored = None
                                         /\ ~created
                                      THEN batch.idx ELSE @]
       IN  /\ batch' = [batch EXCEPT !._last_overall = 0]
           /\ hist' = h0
           /\ Charge(IF ~silent /\ ~interactive THEN 1
                     ELSE IF stored = None /\ ~created THEN 1 ELSE 0)
           /\ IF ~silent /\ ~interactive
              THEN \* acquire_token_interactive raises
                   /\ pc' = "raised"
                   /\ uf' = u0
                   /\ UNCHANGED <<sessions, srv>>
              ELSE IF stored # None
              THEN /\ pc' = "query"
                   /\ uf' = [u0 EXCEPT !.upload_url = stored]
                   /\ UNCHANGED <<sessions, srv>>
              ELSE IF ~CreateRaises(created)
              THEN /\ pc' = "query"
                   /\ srv' = Created(srv, key)
                   /\ uf' = [u0 EXCEPT !.upload_url = Len(srv) + 1]
                   /\ sessions' = _save_session(sessions, key, Len(srv) + 1, None,
                                                save_ok)
              ELSE \* CreateSession not 200/201: RuntimeError
                   /\ pc' = "raised"
                   /\ uf' = u0
                   /\ UNCHANGED <<sessions, srv>>
    /\ UNCHANGED <<files, stateFile, stop>>
    /\ UNCHANGED ui

\* variant of ResumePosition: the seek to the resume point left out
ResumePositionUnsought(uploaded_bytes) == 0

\* open(local_path) and "if uploaded_bytes > 0: f.seek(int(uploaded_bytes))":
\* the read position the loop starts with
ResumePosition(uploaded_bytes) ==
    IF uploaded_bytes > 0 THEN uploaded_bytes ELSE 0

\* upload_file lines 367-417: initial QueryStatus, initial progress report,
\* open the file and seek to the resume point.  sink_ok: progress_cb returns;
\* otherwise it raises, and the exception leaves pf and upload_file.
InitialQuery(q, sink_ok) ==
    /\ pc = "query"
    /\ Charge(QCost(q, uf.upload_url) + SinkCost(sink_ok))
    /\ LET r == Requery(q, 0, 0, uf.file_size, FALSE)
           overall == PfOverall(batch, r[1])
       IN  /\ uf' = IF sink_ok
                     THEN [uf EXCEPT !.uploaded_bytes = r[1],
                                     !.last_confirmed_uploaded = r[2],
                                     !.fpos = ResumePosition(r[1])]
                     ELSE uf
           /\ batch' = [batch EXCEPT !._last_overall = overall]
           /\ hist' = [hist EXCEPT !.pfLast = r[1], !.cbLast = overall,
                                   !.q0 = Reported(q),
                                   !.q0Failed = q.status \notin SuccessStatus,
                                   !.sinkRaised = @ \/ ~sink_ok]
    /\ pc' = IF sink_ok THEN "loop" ELSE "raised"
    /\ UNCHANGED <<files, sessions, stateFile, srv, stop>>
    /\ UNCHANGED ui

\* upload_file returns value: its locals are gone, the result stays
Returned(u, value) ==
    [NoUpload EXCEPT !.path = u.path, !.file_size = u.file_size, !.key = u.key,
                     !.upload_url = u.upload_url, !.ret = value]

\* ------------------------------------------------ upload_file: chunk loop
\* while uploaded_bytes < file_size is false: leave the loop, return
LoopExit ==
    /\ pc = "loop"
    /\ ~(uf.uploaded_bytes < uf.file_size)
    /\ uf' = Returned(uf, uf.uploaded_bytes)
    /\ pc' = "ret"
    /\ UNCHANGED <<files, sessions, stateFile, srv, stop, batch, hist, budget>>
    /\ UNCHANGED ui

\* variant of ShouldStop: the flag is not looked at
ShouldStopNever(flag) == FALSE

\* callable(should_stop) and should_stop() at the top of the loop
ShouldStop(flag) == flag

\* should_stop() at the top of the loop: save the session, return
LoopStop(save_ok) ==
    /\ pc = "loop"
    /\ uf.uploaded_bytes < uf.file_size
    /\ ShouldStop(stop)
    /\ sessions' = _save_session(sessions, uf.key, uf.upload_url, uf.uploaded_bytes,
                                 save_ok)
    /\ uf' = Returned(uf, uf.uploaded_bytes)
    /\ hist' = [hist EXCEPT !.stopSeen = TRUE, !.saveFailed = @ \/ ~save_ok]
    /\ pc' = "ret"
    /\ UNCHANGED <<files, stateFile, srv, stop, batch, budget>>
    /\ UNCHANGED ui

\* f.readinto(buffer): bytes read at file position fpos with buffer size cs
ReadLen(fpos, cs, size) == Min(cs, Max(0, size - fpos))

\* readinto returns 0: break, return uploaded_bytes
LoopEof ==
    /\ pc = "loop"
    /\ uf.uploaded_bytes < uf.file_size
    /\ ~ShouldStop(stop)
    /\ ReadLen(uf.fpos, uf.chunk_size, files[uf.path].size) = 0
    /\ uf' = Returned(uf, uf.uploaded_bytes)
    /\ pc' = "ret"
    /\ UNCHANGED <<files, sessions, stateFile, srv, stop, batch, hist, budget>>
    /\ UNCHANGED ui

\* read the next chunk and send it: PUT with Content-Range start-end/file_size.
\* delivered: the request reaches the service.
SendChunk(delivered) ==
    /\ pc = "loop"
    /\ uf.uploaded_bytes < uf.file_size
    /\ ~ShouldStop(stop)
    /\ Charge(IF delivered THEN 0 ELSE 1)
    /\ LET n == ReadLen(uf.fpos, uf.chunk_size, files[uf.path].size)
           d == Deliver(uf.upload_url, uf.uploaded_bytes, n, uf.file_size, uf.fpos)
       IN  /\ n > 0
           /\ uf' = [uf EXCEPT !.n = n, !.start = uf.uploaded_bytes, !.fpos = @ + n]
           /\ srv' = IF delivered THEN d.srv ELSE srv
           /\ hist' = [hist EXCEPT !.sent = TRUE, !.readPos = uf.fpos,
                                   !.firstStart = IF hist.sent THEN @ ELSE uf.uploaded_bytes,
                                   !.firstRead = IF hist.sent THEN @ ELSE uf.fpos,
                                   !.wire = IF delivered THEN d.wire ELSE "lost",
                                   !.q0Failed = FALSE, !.checkpoint = None,
                                   !.recKind = "", !.recPrev = None, !.recRep = None,
                                   !.seen = ""]
    /\ pc' = "put"
    /\ UNCHANGED <<files, sessions, stateFile, stop, batch>>
    /\ UNCHANGED ui

\* faults charged when the engine sees the status "kind" for the chunk in flight
WireCost(kind) == IF hist.wire = kind THEN 0 ELSE 1

\* variant of NextBackoff: the cap left out
NextBackoffUncapped(b) == b * 2

\* backoff = min(backoff * 2, 30)
NextBackoff(b) == Min(b * 2, 30)

\* random.random(), in quarters
Jitter == 0..3

\* time.sleep(min(backoff * (0.5 + random.random()), 30)): the sleep of a
\* transient failure in quarter seconds, r4 the random number in quarters
TransientSleep(backoff, r4) == Min(backoff * (2 + r4), 30 * 4)

\* "other errors" tail of the loop body (lines 679-711), also reached by the
\* handlers that fall through: reset the HTTP session, back off, QueryStatus.
\* f.seek(uploaded_bytes) gets a float and raises TypeError, which the
\* surrounding except swallows: the read position stays where it is.
OtherTail(u, q) ==
    LET r == Requery(q, u.uploaded_bytes, u.last_confirmed_uploaded, u.file_size, TRUE)
    IN  [u EXCEPT !.backoff = NextBackoff(@), !.chunks_since_adjust = 0,
                  !.uploaded_bytes = r[1], !.last_confirmed_uploaded = r[2]]

\* session.put raises (lines 441-477); the seek of line 472 raises TypeError
\* inside the try, so both exits leave the read position alone
PutException(q) ==
    /\ pc = "put"
    /\ Charge(WireCost("lost") + QCost(q, uf.upload_url))
    /\ LET r == Requery(q, uf.uploaded_bytes, uf.last_confirmed_uploaded, uf.file_size, TRUE)
       IN  uf' = [uf EXCEPT !.backoff = NextBackoff(@), !.chunks_since_adjust = 0,
                            !.uploaded_bytes = Clamp(r[1], uf.file_size),
                            !.last_confirmed_uploaded = r[2]]
    /\ hist' = [hist EXCEPT !.transient = TRUE, !.seen = "exception",
                            !.recKind = "exception",
                            !.recPrev = uf.uploaded_bytes, !.recRep = Reported(q)]
    /\ pc' = "loop"
    /\ UNCHANGED <<files, sessions, stateFile, srv, stop, batch>>
    /\ UNCHANGED ui

\* 409 / 416 (lines 479-521)
PutConflict(q) ==
    /\ pc = "put"
    /\ Charge(WireCost("416") + QCost(q, uf.upload_url))
    /\ IF q.status \in SuccessStatus
       THEN LET r == Requery(q, uf.uploaded_bytes, uf.last_confirmed_uploaded, uf.file_size, TRUE)
            IN  uf' = [uf EXCEPT !.uploaded_bytes = r[1], !.last_confirmed_uploaded = r[2],
                                 !.fpos = r[1], !.backoff = 1]
       ELSE uf' = [uf EXCEPT !.backoff = NextBackoff(@), !.chunks_since_adjust = 0]
    /\ hist' = [hist EXCEPT !.transient = FALSE, !.seen = "conflict",
                            !.recKind = "conflict",
                            !.recPrev = uf.uploaded_bytes, !.recRep = Reported(q)]
    /\ pc' = "loop"
    /\ UNCHANGED <<files, sessions, stateFile, srv, stop, batch>>
    /\ UNCHANGED ui

\* 401 / 403 with an account id (lines 523-554), then the "other errors" tail:
\* the seek of line 550 raises TypeError before backoff is reset and before
\* continue, so control always reaches the tail
PutAuth(refreshed, q1, q2) ==
    /\ pc = "put"
    /\ Charge(1 + (IF refreshed THEN QCost(q1, uf.upload_url) ELSE 1)
                + QCost(q2, uf.upload_url))
    /\ LET r == Requery(q1, uf.uploaded_bytes, uf.last_confirmed_uploaded, uf.file_size, TRUE)
           u1 == IF refreshed
                 THEN [uf EXCEPT !.token = "t1", !.uploaded_bytes = r[1],
                                 !.last_confirmed_uploaded = r[2]]
                 ELSE uf
       IN  uf' = OtherTail(u1, q2)
    /\ hist' = [hist EXCEPT !.auth = IF refreshed THEN "refreshed" ELSE "failed",
                            !.transient = FALSE, !.seen = "auth"]
    /\ pc' = "loop"
    /\ UNCHANGED <<files, sessions, stateFile, srv, stop, batch>>
    /\ UNCHANGED ui

\* 404 (lines 556-588): QueryStatus; on 404 delete the descriptor and create a
\* new session.  The seek of line 579 raises TypeError inside the try, so a
\* successful recreation ends in the except branch, which returns.
PutNotFound(q, created, q2) ==
    /\ pc = "put"
    /\ Charge(WireCost("404") + QCost(q, uf.upload_url)
                + (IF q.status = 404 /\ ~created THEN 1 ELSE 0)
                + (IF q.status \notin {0, 404} THEN QCost(q2, uf.upload_url) ELSE 0))
    /\ IF q.status = 0
       THEN /\ uf' = Returned(uf, Clamp(uf.uploaded_bytes, uf.file_size))
            /\ pc' = "ret"
            /\ hist' = [hist EXCEPT !.transient = FALSE, !.seen = "notfound"]
            /\ UNCHANGED <<sessions, srv>>
       ELSE IF q.status = 404
       THEN /\ pc' = "ret"
            /\ IF created
               THEN /\ srv' = Created(srv, uf.key)
                    /\ sessions' = _save_session(_delete_session(sessions, uf.key),
                                                 uf.key, Len(srv) + 1, None, TRUE)
                    /\ uf' = Returned([uf EXCEPT !.upload_url = Len(srv) + 1],
                                   Clamp(uf.uploaded_bytes, uf.file_size))
                    /\ hist' = [hist EXCEPT !.recreated = uf.uploaded_bytes,
                                            !.postToken = uf.headers_json,
                                            !.transient = FALSE, !.seen = "notfound"]
               ELSE /\ sessions' = _delete_session(sessions, uf.key)
                    /\ uf' = Returned(uf, Clamp(uf.uploaded_bytes, uf.file_size))
                    /\ hist' = [hist EXCEPT !.postToken = uf.headers_json,
                                            !.transient = FALSE, !.seen = "notfound"]
                    /\ UNCHANGED srv
       ELSE /\ uf' = OtherTail(uf, q2)
            /\ pc' = "loop"
            /\ hist' = [hist EXCEPT !.transient = FALSE, !.seen = "notfound"]
            /\ UNCHANGED <<sessions, srv>>
    /\ UNCHANGED <<files, stateFile, stop, batch>>
    /\ UNCHANGED ui

\* 200 / 201 (lines 590-604)
PutComplete(sink_ok) ==
    /\ pc = "put"
    /\ Charge(WireCost("201") + SinkCost(sink_ok))
    /\ LET overall == PfOverall(batch, uf.file_size)
       IN  /\ batch' = [batch EXCEPT !._last_overall = overall]
           /\ hist' = [hist EXCEPT !.pfLast = uf.file_size, !.cbLast = overall,
                                   !.completed = TRUE, !.transient = FALSE,
                                   !.seen = "complete",
                                   !.sinkRaised = @ \/ ~sink_ok]
    /\ uf' = IF sink_ok THEN Returned(uf, uf.file_size) ELSE uf
    /\ sessions' = IF sink_ok THEN _delete_session(sessions, uf.key) ELSE sessions
    /\ pc' = IF sink_ok THEN "ret" ELSE "raised"
    /\ UNCHANGED <<files, stateFile, srv, stop>>
    /\ UNCHANGED ui

\* any other status (lines 679-711)
PutOther(q) ==
    /\ pc = "put"
    /\ Charge(1 + QCost(q, uf.upload_url))
    /\ uf' = OtherTail(uf, q)
    /\ hist' = [hist EXCEPT !.transient = TRUE, !.seen = "other"]
    /\ pc' = "loop"
    /\ UNCHANGED <<files, sessions, stateFile, srv, stop, batch>>
    /\ UNCHANGED ui

\* speeds (bytes per second) a chunk transfer is measured at
SlowSpeed == 100 * 1024
FastSpeed == 10 * MiB
InstSpeeds == {SlowSpeed, FastSpeed}

\* the throughput does not change within one upload_file
SteadySpeed(inst_speed) == uf.ema_speed \in {None, inst_speed}

\* variant of Retune: every accepted chunk sets the chunk size to the target
RetuneEager(u, inst_speed) ==
    [ema_speed |-> inst_speed, chunks_since_adjust |-> 0,
     chunk_size |-> Min(Max(_round_to_320k(inst_speed * _TARGET_CHUNK_SECONDS),
                            _MIN_CHUNK), _MAX_CHUNK)]

\* adaptive resizing (lines 627-646): the new ema_speed, chunks_since_adjust
\* and chunk_size.  ema_speed is kept in whole bytes per second.
Retune(u, inst_speed) ==
    LET ema == IF u.ema_speed = None THEN inst_speed
               ELSE (3 * inst_speed + 7 * u.ema_speed) \div 10
        target_bytes == ema * _TARGET_CHUNK_SECONDS
        new_chunk == Min(Max(_round_to_320k(target_bytes), _MIN_CHUNK), _MAX_CHUNK)
    IN  IF u.chunks_since_adjust + 1 >= _ADJUST_EVERY_N_CHUNKS
        THEN [ema_speed |-> ema, chunks_since_adjust |-> 0,
              chunk_size |-> IF 4 * Abs(new_chunk - u.chunk_size) >= u.chunk_size
                             THEN new_chunk ELSE u.chunk_size]
        ELSE [ema_speed |-> ema, chunks_since_adjust |-> u.chunks_since_adjust + 1,
              chunk_size |-> u.chunk_size]

\* offset taken from a 202 response (lines 608-625); with no usable header
\* and an unparseable body the engine advances by the chunk it sent
AcceptedOffset(resp, u) ==
    LET hdr_pos == _parse_uploaded_from_headers(resp.hdr)
        lc == u.last_confirmed_uploaded
        up1 == IF hdr_pos # None /\ hdr_pos >= lc THEN hdr_pos ELSE lc
        up2 == Clamp(up1, u.file_size)
    IN  IF hdr_pos # None THEN <<up2, up2>>
        ELSE IF ~resp.json_ok THEN << Clamp(u.start + u.n, u.file_size), up2 >>
        ELSE LET t_next == _parse_next_start(resp.ranges)
                 up3 == IF t_next >= up2 THEN t_next ELSE up2
             IN  << Clamp(up3, u.file_size), up3 >>

\* 202 accepted-partial (lines 606-677).  due: 30 seconds have passed since
\* the last checkpoint.  The progress report (lines 653-657) comes before the
\* checkpoint and the stop check.  save_ok: the descriptor can be written.
PutAccepted(resp, inst_speed, due, sink_ok, save_ok) ==
    /\ pc = "put"
    /\ Charge((IF hist.wire = "202" /\ Truthful(resp, uf.upload_url) THEN 0 ELSE 1)
                + SinkCost(sink_ok))
    /\ LET off == AcceptedOffset(resp, uf)
           tune == Retune(uf, inst_speed)
           save == uf.chunks_since_save + 1 >= 3 \/ due
           overall == PfOverall(batch, off[1])
       IN  /\ uf' = IF ~sink_ok THEN uf
                     ELSE IF stop THEN Returned(uf, off[1])
                     ELSE [uf EXCEPT !.uploaded_bytes = off[1],
                               !.last_confirmed_uploaded = off[2],
                               !.ema_speed = tune.ema_speed,
                               !.chunks_since_adjust = tune.chunks_since_adjust,
                               !.chunk_size = tune.chunk_size,
                               !.chunks_since_save = IF save THEN 0 ELSE @ + 1,
                               !.backoff = 1]
           /\ sessions' = IF sink_ok /\ (save \/ stop)
                          THEN _save_session(sessions, uf.key, uf.upload_url, off[1],
                                             save_ok)
                          ELSE sessions
           /\ batch' = [batch EXCEPT !._last_overall = overall]
           /\ hist' = [hist EXCEPT !.pfLast = off[1], !.cbLast = overall,
                                   !.stopSeen = sink_ok /\ stop,
                                   !.transient = FALSE, !.seen = "accepted",
                                   !.sinkRaised = @ \/ ~sink_ok,
                                   !.saveFailed = @ \/ (sink_ok /\ (save \/ stop)
                                                        /\ ~save_ok)]
    /\ pc' = IF ~sink_ok THEN "raised" ELSE IF stop THEN "ret" ELSE "loop"
    /\ UNCHANGED <<files, stateFile, srv, stop>>
    /\ UNCHANGED ui

\* --------------------------------------------- upload_items: after a file
\* variant of HaltBatch: the batch goes on after an incomplete file
HaltBatchNever(actual_size, size) == FALSE

\* "if actual_size < size: ... break"
HaltBatch(actual_size, size) == actual_size < size

\* lines 282-306: record the file's status, add to completed_bytes, report,
\* halt the batch when the file is incomplete.  When progress_cb raises the
\* exception leaves upload_items after the status was saved.
AfterFile(sink_ok) ==
    /\ pc = "ret"
    /\ Charge(SinkCost(sink_ok))
    /\ LET actual_size == uf.ret
           size == Item.size
           fs1 == SetStatus(batch.file_states, Item.path,
                            IF actual_size >= size THEN "done" ELSE "incomplete")
           completed == batch.completed_bytes + Min(actual_size, size)
       IN  /\ batch' = [batch EXCEPT !.file_states = fs1, !.completed_bytes = completed,
                                     !.idx = IF ~sink_ok \/ HaltBatch(actual_size, size)
                                             THEN @ ELSE @ + 1]
           /\ stateFile' = << fs1 >>
           /\ hist' = [hist EXCEPT !.cbLast = completed,
                                   !.halted = IF sink_ok /\ actual_size < size /\ @ = 0
                                              THEN batch.idx ELSE @,
                                   !.sinkRaised = @ \/ ~sink_ok]
           /\ pc' = IF ~sink_ok THEN "failed"
                     ELSE IF HaltBatch(actual_size, size) THEN "final" ELSE "items"
    /\ UNCHANGED <<files, sessions, srv, stop, uf>>
    /\ UNCHANGED ui

\* variant of AllDone: the completion check always succeeds
AllDoneAlways(b) == TRUE

\* all(...) over abs_file_list together with the length comparison
AllDone(b) ==
    /\ Cardinality(DOMAIN b.file_states) = Len(b.abs_file_list)
    /\ \A i \in 1..Len(b.abs_file_list) :
          StatusOf(b.file_states, b.abs_file_list[i].path) = "done"

\* lines 308-330 and the end of UploadWorker.run: final completion check,
\* return True, finished.emit(True).  progress_cb is called only when all is
\* done; when it raises the exception leaves upload_items.
Final(sink_ok) ==
    /\ \/ pc = "final"
       \/ pc = "items" /\ batch.idx > Len(batch.abs_file_list)
    /\ ~sink_ok => AllDone(batch)
    /\ Charge(SinkCost(sink_ok))
    /\ IF AllDone(batch)
       THEN /\ stateFile' = <<>>
            /\ hist' = [hist EXCEPT !.cbLast = batch.total_bytes,
                                    !.finished = IF sink_ok THEN "true" ELSE @,
                                    !.report = IF sink_ok THEN "all" ELSE @,
                                    !.sinkRaised = @ \/ ~sink_ok]
       ELSE /\ hist' = [hist EXCEPT !.finished = "true", !.report = "incomplete"]
            /\ UNCHANGED stateFile
    /\ pc' = IF sink_ok THEN "idle" ELSE "failed"
    /\ uf' = NoUpload
    /\ UNCHANGED <<files, sessions, srv, stop, batch>>
    /\ UNCHANGED ui

\* upload_file raised ("raised") or upload_items itself did ("failed"):
\* UploadWorker.run logs the traceback, finished.emit(False)
WorkerFailed ==
    /\ pc \in {"raised", "failed"}
    /\ pc' = "idle"
    /\ uf' = NoUpload
    /\ hist' = [hist EXCEPT !.finished = "false"]
    /\ UNCHANGED <<files, sessions, stateFile, srv, stop, batch, budget>>
    /\ UNCHANGED ui

\* MainWindow.stop_upload -> UploadWorker.request_stop
RequestStop ==
    /\ pc \in {"items", "loop", "put"}
    /\ ~stop
    /\ stop' = TRUE
    /\ UNCHANGED <<files, sessions, stateFile, srv, pc, batch, uf, hist, budget>>
    /\ UNCHANGED ui

\* the process ends and main() runs again: clear_old_sessions unlinks every
\* *.json under SESS_DIR, which holds the session descriptors and STATE_FILE
Restart ==
    /\ sessions' = EmptyMap
    /\ stateFile' = <<>>
    /\ pc' = "idle"
    /\ stop' = FALSE
    /\ batch' = NoBatch
    /\ uf' = NoUpload
    /\ hist' = [NoHist EXCEPT !.restarted =
                    hist.restarted \/ sessions # EmptyMap \/ stateFile # <<>>]
    /\ UNCHANGED <<files, srv, budget>>
    /\ UNCHANGED ui

\* the user changes a local file that has an upload session stored, while no
\* upload runs: its modification time advances by one tick
ModifiablePaths == {"B"}

TouchFile(p) ==
    /\ pc = "idle" /\ budget.runs > 0
    /\ files[p].mtime < MaxMtime
    /\ \E k \in DOMAIN sessions :
          k.path = p /\ srv[sessions[k].uploadUrl].next > 0
    /\ files' = [files EXCEPT ![p].mtime = @ + 1]
    /\ UNCHANGED <<sessions, stateFile, srv, pc, stop, batch, uf, hist, budget>>
    /\ UNCHANGED ui

\* The user edits a local file that the batch state records as done, while
\* no upload runs: its modification time advances by one tick.
EditDoneFile(p) ==
    /\ pc = "idle" /\ budget.runs > 0
    /\ files[p].mtime < MaxMtime
    /\ StatusOf(_load_batch_state, p) = "done"
    /\ files' = [files EXCEPT ![p].mtime = @ + 1]
    /\ UNCHANGED <<sessions, stateFile, srv, pc, stop, batch, uf, hist, budget>>
    /\ UNCHANGED ui

\* an upload session that holds a partial upload and whose descriptor is
\* stored expires on the service while no upload runs
ExpireStoredSession(url) ==
    /\ pc = "idle" /\ budget.runs > 0
    /\ srv[url].live /\ srv[url].next > 0
    /\ \E k \in DOMAIN sessions : sessions[k].uploadUrl = url
    /\ srv' = [srv EXCEPT ![url].live = FALSE]
    /\ UNCHANGED <<files, sessions, stateFile, pc, stop, batch, uf, hist, budget>>
    /\ UNCHANGED ui

\* the service drops the upload session the engine is using
ExpireSession ==
    /\ pc = "loop"
    /\ srv[uf.upload_url].live
    /\ Charge(1)
    /\ srv' = [srv EXCEPT ![uf.upload_url].live = FALSE]
    /\ UNCHANGED <<files, sessions, stateFile, pc, stop, batch, uf, hist>>
    /\ UNCHANGED ui

Next ==
    \/ \E lst \in FileLists : StartUpload(lst)
    \/ ItemsStop
    \/ ItemsSkip
    \/ \E silent \in BOOLEAN, interactive \in BOOLEAN, created \in BOOLEAN :
          /\ silent => interactive
          /\ (~silent /\ ~interactive) => created
          /\ UploadFileBegin(silent, interactive, created, TRUE, TRUE)
    \/ pc = "query" /\ \E q \in Responses, sink_ok \in BOOLEAN : InitialQuery(q, sink_ok)
    \/ LoopExit
    \/ LoopStop(TRUE)
    \/ LoopEof
    \/ \E delivered \in BOOLEAN : SendChunk(delivered)
    \/ pc = "put" /\ \E q \in Responses : PutException(q)
    \/ pc = "put" /\ \E q \in Responses : PutConflict(q)
    \/ pc = "put" /\ \E refreshed \in BOOLEAN, q1 \in Responses, q2 \in Responses :
          /\ refreshed \/ q1 = NoResponse
          /\ PutAuth(refreshed, q1, q2)
    \/ pc = "put" /\ \E q \in Responses, created \in BOOLEAN, q2 \in Responses :
          /\ q.status \in {0, 404} => q2 = NoResponse
          /\ q.status # 404 => created
          /\ PutNotFound(q, created, q2)
    \/ \E sink_ok \in BOOLEAN : PutComplete(sink_ok)
    \/ pc = "put" /\ \E resp \in QuerySuccesses(Offsets(uf), uf.file_size + 1),
          inst_speed \in InstSpeeds, due \in BOOLEAN, sink_ok \in BOOLEAN :
          /\ SteadySpeed(inst_speed)
          /\ PutAccepted(resp, inst_speed, due, sink_ok, TRUE)
    \/ pc = "put" /\ \E q \in Responses : PutOther(q)
    \/ \E sink_ok \in BOOLEAN : AfterFile(sink_ok)
    \/ \E sink_ok \in BOOLEAN : Final(sink_ok)
    \/ WorkerFailed
    \/ RequestStop
    \/ Restart
    \/ ExpireSession

\* One run of upload_items against a service, a network, a login and a
\* progress sink that fail up to MaxFaults times, with stops and restarts of
\* the process.  The session store works (SpecStore lets it fail).
Spec == Init /\ [][Next]_vars

\* ------------------------------------------------ second specification
\* Successive runs against a service and a login that do not fail, over a
\* fast network: up to MaxRuns runs with stops, restarts of the process,
\* edits of the file and expiry of stored sessions in between.
InitResume ==
    /\ files = [p \in Paths |-> [size |-> InitialSize(p), mtime |-> 0]]
    /\ sessions = EmptyMap
    /\ stateFile = <<>>
    /\ srv = <<>>
    /\ pc = "idle"
    /\ stop = FALSE
    /\ batch = NoBatch
    /\ uf = NoUpload
    /\ hist = NoHist
    /\ ui = NoUi
    /\ budget = [faults |-> 0, runs |-> MaxRuns]

NextResume ==
    \/ \E lst \in FileLists : StartUpload(lst)
    \/ ItemsStop
    \/ ItemsSkip
    \/ UploadFileBegin(TRUE, TRUE, TRUE, TRUE, TRUE)
    \/ pc = "query" /\ \E q \in Responses : InitialQuery(q, TRUE)
    \/ LoopExit
    \/ LoopStop(TRUE)
    \/ SendChunk(TRUE)
    \/ pc = "put" /\ \E q \in Responses : PutNotFound(q, TRUE, NoResponse)
    \/ PutComplete(TRUE)
    \/ pc = "put" /\ \E resp \in QuerySuccesses(Offsets(uf), uf.file_size + 1),
          due \in BOOLEAN :
          PutAccepted(resp, FastSpeed, due, TRUE, TRUE)
    \/ AfterFile(TRUE)
    \/ Final(TRUE)
    \/ RequestStop
    \/ Restart
    \/ \E p \in ModifiablePaths : TouchFile(p)
    \/ \E p \in ModifiablePaths : EditDoneFile(p)
    \/ \E url \in 1..Len(srv) : ExpireStoredSession(url)

SpecResume == InitResume /\ [][NextResume]_vars

\* ------------------------------------------------- third specification
\* Successive runs in one process against a service, a login and a sink
\* that do not fail, with a session store whose reads and writes may fail
\* at any time (an unreadable or unwritable descriptor file).
InitStore ==
    /\ files = [p \in Paths |-> [size |-> InitialSize(p), mtime |-> 0]]
    /\ sessions = EmptyMap
    /\ stateFile = <<>>
    /\ srv = <<>>
    /\ pc = "idle"
    /\ stop = FALSE
    /\ batch = NoBatch
    /\ uf = NoUpload
    /\ hist = NoHist
    /\ ui = NoUi
    /\ budget = [faults |-> 0, runs |-> MaxRuns]

NextStore ==
    \/ \E lst \in FileLists : StartUpload(lst)
    \/ ItemsStop
    \/ ItemsSkip
    \/ \E load_ok \in BOOLEAN, save_ok \in BOOLEAN :
          UploadFileBegin(TRUE, TRUE, TRUE, load_ok, save_ok)
    \/ pc = "query" /\ \E q \in Responses : InitialQuery(q, TRUE)
    \/ LoopExit
    \/ \E save_ok \in BOOLEAN : LoopStop(save_ok)
    \/ SendChunk(TRUE)
    \/ PutComplete(TRUE)
    \/ pc = "put" /\ \E resp \in QuerySuccesses(Offsets(uf), uf.file_size + 1),
          due \in BOOLEAN, save_ok \in BOOLEAN :
          PutAccepted(resp, FastSpeed, due, TRUE, save_ok)
    \/ AfterFile(TRUE)
    \/ Final(TRUE)
    \/ RequestStop

SpecStore == InitStore /\ [][NextStore]_vars

\* ------------------------------------------------- window specification
\* the engine's variables, which the window specification leaves alone
engine == <<files, sessions, stateFile, srv, pc, stop, batch, uf, hist, budget>>

\* self.worker and self.worker.isRunning()
WorkerBusy(u) == u.worker # 0 /\ u.st[u.worker] \in {"uploading", "emitted"}

\* variant of WorkerBusy: the check of start_upload left out
WorkerBusyNever(u) == FALSE

\* self.worker and self.worker.isRunning() as start_upload evaluates it
StartGuard(u) == WorkerBusy(u)

\* the user clicks the enabled Start button with files and an account
\* chosen: start_upload (lines 310-334)
PressStart ==
    /\ ~ui.crashed /\ ui.btn_start
    /\ IF StartGuard(ui)
       THEN ui' = [ui EXCEPT !.warned = TRUE]
       ELSE /\ ui.made < MaxWorkers
            /\ ui' = [ui EXCEPT !.made = @ + 1, !.worker = ui.made + 1,
                                !.st[ui.made + 1] = "uploading",
                                !.btn_start = FALSE, !.btn_stop = TRUE,
                                !.warned = FALSE]
    /\ UNCHANGED engine

\* the user clicks the enabled Stop button: stop_upload (lines 336-342)
PressStop ==
    /\ ~ui.crashed /\ ui.btn_stop
    /\ ui' = [ui EXCEPT !.stopped = IF WorkerBusy(ui)
                                    THEN [@ EXCEPT ![ui.worker] = TRUE] ELSE @,
                        !.btn_start = TRUE, !.btn_stop = FALSE]
    /\ UNCHANGED engine

\* UploadWorker.run lines 44-57: upload_items returns or raises, and the
\* finished signal is emitted from the worker thread: it is queued for the
\* main thread
WorkerReturns(w) ==
    /\ ~ui.crashed /\ ui.st[w] = "uploading"
    /\ ui' = [ui EXCEPT !.st[w] = "emitted", !.signals = Append(@, w)]
    /\ UNCHANGED engine

\* run() is left and the thread finishes: isRunning() is False from here on
ThreadEnds(w) ==
    /\ ~ui.crashed /\ ui.st[w] = "emitted"
    /\ ui' = [ui EXCEPT !.st[w] = "ended"]
    /\ UNCHANGED engine

\* the main thread delivers the oldest queued finished signal: on_finished
\* (lines 392-402) and, when control is back in the event loop, the deletion
\* that deleteLater asked for.  Deleting a QThread that has not finished
\* aborts the process, and every thread with it.
DeliverFinished ==
    /\ ~ui.crashed /\ ui.signals # <<>>
    /\ LET abort == ui.worker # 0 /\ ui.st[ui.worker] # "ended"
       IN  ui' = [ui EXCEPT !.signals = Tail(@), !.worker = 0,
                           !.btn_start = TRUE, !.btn_stop = FALSE,
                           !.crashed = abort,
                           !.st = IF abort
                                  THEN [w \in 1..MaxWorkers |->
                                          IF @[w] = "new" THEN "new" ELSE "ended"]
                                  ELSE @]
    /\ UNCHANGED engine

InitUi == Init

NextUi ==
    \/ PressStart
    \/ PressStop
    \/ \E w \in 1..MaxWorkers : WorkerReturns(w)
    \/ \E w \in 1..MaxWorkers : ThreadEnds(w)
    \/ DeliverFinished

\* The window with its Start and Stop buttons and up to MaxWorkers worker
\* threads, whose finished signals reach the main thread through its event
\* queue; what a worker does inside upload_items is left to the other
\* specifications.
SpecUi == InitUi /\ [][NextUi]_vars

\* ------------------------------------------------ fourth specification
\* the only list of the retry specification: the file of six chunks
RetryList == <<"D">>

\* the service answers a status query truthfully or with 503
RetryResponses ==
    { q \in Responses : Truthful(q, uf.upload_url) \/ q.status = 503 }

\* One run over one file of several chunks with up to MaxRetryFaults lost
\* requests, unclassified answers and failed status queries in a row or
\* spread over the transfer; login, progress sink and session store work.
InitRetry ==
    /\ files = [p \in Paths |-> [size |-> InitialSize(p), mtime |-> 0]]
    /\ sessions = EmptyMap
    /\ stateFile = <<>>
    /\ srv = <<>>
    /\ pc = "idle"
    /\ stop = FALSE
    /\ batch = NoBatch
    /\ uf = NoUpload
    /\ hist = NoHist
    /\ ui = NoUi
    /\ budget = [faults |-> MaxRetryFaults, runs |-> 1]

NextRetry ==
    \/ StartUpload(RetryList)
    \/ UploadFileBegin(TRUE, TRUE, TRUE, TRUE, TRUE)
    \/ pc = "query" /\ \E q \in RetryResponses : InitialQuery(q, TRUE)
    \/ LoopEof
    \/ \E delivered \in BOOLEAN : SendChunk(delivered)
    \/ pc = "put" /\ \E q \in RetryResponses : PutException(q)
    \/ pc = "put" /\ \E q \in RetryResponses : PutOther(q)
    \/ PutComplete(TRUE)
    \/ pc = "put" /\ \E resp \in QuerySuccesses(Offsets(uf), uf.file_size + 1),
          inst_speed \in InstSpeeds :
          /\ SteadySpeed(inst_speed)
          /\ Truthful(resp, uf.upload_url)
          /\ PutAccepted(resp, inst_speed, FALSE, TRUE, TRUE)
    \/ AfterFile(TRUE)
    \/ Final(TRUE)

SpecRetry == InitRetry /\ [][NextRetry]_vars

\* ------------------------------------------------- fifth specification
\* the lists of the progress specification: one file of at least one byte
LiveLists == { <<"A">>, <<"B">> }

\* One run over one non-empty file in which cancellation is never requested,
\* the login, the progress sink and the session store work and the session
\* does not expire, while up to MaxFaults requests are lost, answered with a
\* conflict, an auth rejection or another error status, or answered with a
\* wrong offset.  Once the faults are spent the service answers truthfully.
\* The worker thread keeps running: a step that can be taken is taken.
InitLive == Init

NextLive ==
    \/ \E lst \in LiveLists : StartUpload(lst)
    \/ UploadFileBegin(TRUE, TRUE, TRUE, TRUE, TRUE)
    \/ pc = "query" /\ \E q \in Responses : InitialQuery(q, TRUE)
    \/ LoopExit
    \/ LoopEof
    \/ \E delivered \in BOOLEAN : SendChunk(delivered)
    \/ pc = "put" /\ \E q \in Responses : PutException(q)
    \/ pc = "put" /\ \E q \in Responses : PutConflict(q)
    \/ pc = "put" /\ \E q1 \in Responses, q2 \in Responses : PutAuth(TRUE, q1, q2)
    \/ PutComplete(TRUE)
    \/ pc = "put" /\ \E resp \in QuerySuccesses(Offsets(uf), uf.file_size + 1),
          inst_speed \in InstSpeeds :
          /\ SteadySpeed(inst_speed)
          /\ PutAccepted(resp, inst_speed, FALSE, TRUE, TRUE)
    \/ pc = "put" /\ \E q \in Responses : PutOther(q)
    \/ AfterFile(TRUE)
    \/ Final(TRUE)

SpecLive == InitLive /\ [][NextLive]_vars /\ WF_vars(NextLive)

\* ------------------------------------------------- sixth specification
\* the steps of the worker thread in the cancellation specification: those
\* of the progress specification, the stop checks, a failed token refresh
\* and the handling of a session that is gone
WorkerStop ==
    \/ NextLive
    \/ ItemsStop
    \/ LoopStop(TRUE)
    \/ pc = "put" /\ \E q2 \in Responses : PutAuth(FALSE, NoResponse, q2)
    \/ pc = "put" /\ \E q \in Responses, created \in BOOLEAN, q2 \in Responses :
          /\ q.status \in {0, 404} => q2 = NoResponse
          /\ q.status # 404 => created
          /\ PutNotFound(q, created, q2)

\* One run over one non-empty file with faults as in the progress
\* specification, in which the user may press Stop at any time and the
\* session may expire.  Every network call returns, so the worker thread
\* keeps taking steps; the user and the service need not act.
NextStop ==
    \/ WorkerStop
    \/ RequestStop
    \/ ExpireSession

SpecStop == Init /\ [][NextStop]_vars /\ WF_vars(WorkerStop)

\* ================================================================ claims
\* upload_file is running (it has neither returned to AfterFile nor raised)
InUploadFile == pc \in {"query", "loop", "put", "ret"}

\* the entries of the submitted list, and the list positions tried so far
ListPath(i) == batch.abs_file_list[i].path
Tried == { hist.tried[k] : k \in 1..Len(hist.tried) }

\* C1: within one upload_file invocation the uploaded offset passed to
\* progress_fn never decreases from one call to the next, whatever the
\* service answers.
C1_ProgressFnMonotone ==
    [][ (hist.pfLast # None /\ hist'.pfLast # None) => hist'.pfLast >= hist.pfLast ]_vars

\* C2: every chunk PUT declares the range [offset, offset+len-1] with offset
\* the current confirmed offset and offset+len-1 < fileSize, and its payload
\* was read at file position offset.
C2_ChunkMatchesRange ==
    pc = "put" =>
        /\ uf.start = uf.uploaded_bytes
        /\ uf.n > 0
        /\ uf.start + uf.n - 1 < uf.file_size
        /\ hist.readPos = uf.start

\* C3: in an upload_file that loaded a stored session and whose initial
\* QueryStatus reported offset N, the first chunk PUT has range start N and
\* was read at file position N, and no PUT of that upload_file declares or
\* reads a byte below N.
C3_ResumeAtServerOffset ==
    (InUploadFile /\ hist.resumed /\ hist.q0 # None /\ hist.sent) =>
        /\ hist.firstStart = hist.q0
        /\ hist.firstRead = hist.q0
        /\ pc = "put" => (uf.start >= hist.q0 /\ hist.readPos >= hist.q0)

\* C3 witness: a resumed upload_file whose QueryStatus reported N > 0 has its
\* first chunk PUT in flight.
C3_Witness ==
    /\ pc = "put" /\ hist.resumed
    /\ hist.q0 # None /\ hist.q0 > 0
    /\ uf.start = hist.firstStart /\ uf.start = hist.q0

\* C4: after a restart of the process that follows a partial upload (N > 0
\* bytes confirmed, file unchanged), upload_file reuses the session the
\* service still holds for the file and no chunk PUT starts below N.
C4_ResumeAfterRestart ==
    (InUploadFile /\ hist.restarted /\ hist.priorUrl # None) =>
        ((hist.priorConfirmed > 0
            /\ srv[hist.priorUrl].version = files[uf.path].mtime) =>
                /\ uf.upload_url = hist.priorUrl
                /\ pc = "put" => uf.start >= hist.priorConfirmed)

\* the persisted batch state
PersistedStatus(p) ==
    IF stateFile = <<>> THEN "none" ELSE StatusOf(stateFile[1], p)

\* what C5 states of the files up to the halting one: nothing behind it was
\* tried, the ones before it are done, it is incomplete
HaltedPrefix ==
    /\ \A i \in Tried : i <= hist.halted
    /\ stateFile # <<>>
    /\ \A i \in 1..(hist.halted - 1) : PersistedStatus(ListPath(i)) = "done"
    /\ PersistedStatus(ListPath(hist.halted)) = "incomplete"

\* C5 as stated: when upload_file returns less than the expected size for
\* file B, no file after B is attempted in that run, and the persisted batch
\* state shows every file before B done, B incomplete, every file after B
\* absent.
C5_HaltLeavesLaterAbsent ==
    hist.halted # 0 =>
        /\ HaltedPrefix
        /\ \A i \in (hist.halted + 1)..Len(batch.abs_file_list) :
              PersistedStatus(ListPath(i)) = "none"

\* C5 amended: ... and every file after B that does not also stand before B
\* in the list has the status the batch state held for it when the run
\* started (absent when it held none).
C5_HaltLeavesLaterUntouched ==
    hist.halted # 0 =>
        /\ HaltedPrefix
        /\ \A i \in (hist.halted + 1)..Len(batch.abs_file_list) :
              (\A j \in 1..hist.halted : ListPath(j) # ListPath(i)) =>
                  PersistedStatus(ListPath(i)) = StatusOf(hist.startStates, ListPath(i))

\* C5 witness: a run was halted by a file that has other files behind it, one
\* of which the batch state of an earlier run already lists.
C5_Witness ==
    /\ pc = "idle" /\ hist.halted # 0
    /\ \E i \in (hist.halted + 1)..Len(batch.abs_file_list) :
          /\ \A j \in 1..hist.halted : ListPath(j) # ListPath(i)
          /\ StatusOf(hist.startStates, ListPath(i)) = "done"

\* C6: a file whose status is done when upload_items reaches it is not
\* passed to upload_file, and no file is passed to upload_file twice in one
\* run.
C6_DoneNeverUploaded ==
    /\ (InUploadFile \/ pc = "raised") =>
          /\ StatusOf(batch.file_states, Item.path) # "done"
          /\ StatusOf(hist.startStates, Item.path) # "done"
    /\ \A k1, k2 \in 1..Len(hist.tried) :
          k1 # k2 => ListPath(hist.tried[k1]) # ListPath(hist.tried[k2])

\* C6 witness: upload_items has passed over a file that was done (one done
\* in an earlier run, one done earlier in this run) and is at a later file.
C6_Witness ==
    /\ InUploadFile
    /\ \E i \in 1..(batch.idx - 1) :
          i \notin Tried /\ StatusOf(hist.startStates, ListPath(i)) = "done"
    /\ \E i \in 1..(batch.idx - 1) : i \in Tried

\* C7: across one upload_items run the uploadedBytes value passed to
\* progress_cb never decreases from one call to the next.
C7_ProgressCbMonotone ==
    [][ (hist.cbLast # None /\ hist'.cbLast # None) => hist'.cbLast >= hist.cbLast ]_vars

\* C8: every chunk size the engine uses, initial or retuned, is a positive
\* multiple of 320*1024 within [2 MiB, _MAX_CHUNK].
C8_ChunkSizeAligned ==
    pc \in {"query", "loop", "put"} =>
        /\ uf.chunk_size > 0
        /\ uf.chunk_size % (320 * 1024) = 0
        /\ uf.chunk_size >= 2 * MiB
        /\ uf.chunk_size <= _MAX_CHUNK

C10_ChangedFileStartsAfresh ==
    (InUploadFile /\ hist.priorUrl # None) =>
        ((hist.priorConfirmed > 0
            /\ srv[hist.priorUrl].version # files[uf.path].mtime) =>
                /\ uf.key # srv[hist.priorUrl].key
                /\ uf.upload_url # hist.priorUrl
                /\ hist.sent => hist.firstStart = 0)

\* C11: when upload_file finds the cancellation flag set at a chunk boundary
\* (before reading a chunk, or after an accepted chunk), it stores the session
\* descriptor with its upload URL and the current offset, sends no further
\* chunk PUT, and returns that offset without raising.
C11_StopSavesAndReturns ==
    hist.stopSeen =>
        /\ pc \in {"ret", "items", "final", "idle", "failed"}
        /\ pc = "ret" =>
              /\ uf.key \in DOMAIN sessions
              /\ sessions[uf.key].uploadUrl = uf.upload_url
              /\ sessions[uf.key].uploaded = uf.ret
              /\ uf.ret >= 0 /\ uf.ret <= uf.file_size

\* C11 witness: upload_file has returned on cancellation with part of the
\* large file confirmed.
C11_Witness ==
    /\ pc = "ret" /\ hist.stopSeen
    /\ uf.path = "B" /\ uf.ret > 0
    /\ sessions[uf.key].uploaded = uf.ret

\* every entry of the submitted list has status done in the run's files dict
EveryListedDone ==
    \A i \in 1..Len(batch.abs_file_list) :
        StatusOf(batch.file_states, ListPath(i)) = "done"

\* C12: the persisted batch-state record is removed only by a run of
\* upload_items in which every file of the batch is done; a restart of the
\* process leaves the record of an incomplete batch in place.
C12_RecordKeptUntilAllDone ==
    [][ (stateFile # <<>> /\ stateFile' = <<>>) =>
            /\ pc \in {"final", "items"}
            /\ batch.abs_file_list # <<>>
            /\ EveryListedDone ]_vars

\* upload_items has returned and the files dict it ended with
RunEnded == pc = "idle" /\ batch.abs_file_list # <<>>

\* C13: whenever upload_items ends with every file of the submitted list in
\* status done, the batch-state record is deleted and the final progress
\* (total of total) has been reported, whatever the record held when the run
\* started.
C13_AllDoneDeletesRecord ==
    (RunEnded /\ EveryListedDone) =>
        /\ stateFile = <<>>
        /\ hist.cbLast = batch.total_bytes

C15_AuthRefresh ==
    /\ (hist.auth = "refreshed" /\ pc \in {"loop", "put"}) => uf.token = "t1"
    /\ hist.auth = "failed" => pc \notin {"loop", "put"}

\* C16: after a chunk PUT was answered 404 with k > 0 bytes confirmed and the
\* engine has deleted the descriptor and created and stored a new session,
\* upload_file does not return before the file is complete, unless
\* cancellation was requested: it returns fileSize after a PUT answered
\* 200/201.
C16_RecreatedSessionCompletes ==
    (pc = "ret" /\ hist.recreated # None /\ hist.recreated > 0 /\ ~stop) =>
        /\ uf.key \in DOMAIN sessions => sessions[uf.key].uploadUrl = uf.upload_url
        /\ hist.completed
        /\ uf.ret = uf.file_size

\* C17: a chunk PUT that ends in a transport exception or an unclassified
\* status never makes upload_file return or raise while cancellation is not
\* requested: after such a failure upload_file returns only by observing the
\* cancellation flag.
C17_TransientFailuresRetried ==
    (pc \in {"ret", "raised"} /\ hist.transient) => hist.stopSeen

\* C18: when the progress sink raises on an invocation, the transfer is not
\* aborted: neither upload_file nor upload_items ends with the exception, and
\* the worker does not report a failed run.
C18_SinkFailureIgnored ==
    hist.sinkRaised =>
        /\ pc \notin {"raised", "failed"}
        /\ hist.finished # "false"

C20_SuccessOnlyWhenAllDone ==
    (RunEnded /\ hist.finished = "true") => EveryListedDone

\* C21: after a transport failure on a chunk PUT the coming PUT starts at the
\* re-queried offset, or at the unchanged offset when the re-query failed,
\* and the local read position stands at that same offset before the chunk
\* is read again.
C21_ExceptionRealignsRead ==
    (pc = "loop" /\ hist.recKind = "exception") =>
        /\ hist.recRep = None => uf.uploaded_bytes = hist.recPrev
        /\ (hist.recRep # None /\ hist.recRep >= hist.recPrev
               /\ hist.recRep <= uf.file_size) => uf.uploaded_bytes = hist.recRep
        /\ uf.fpos = uf.uploaded_bytes

\* C22: after a 409/416 the coming PUT starts at the offset the recovery
\* QueryStatus reported, with the local read position at that offset and
\* backoff back at 1; and upload_file never ends because of a conflict, also
\* when the recovery query fails: after a conflict it returns only by
\* observing the cancellation flag.
C22_ConflictRealigns ==
    /\ (pc = "loop" /\ hist.recKind = "conflict" /\ hist.recRep # None) =>
          /\ (hist.recRep >= hist.recPrev /\ hist.recRep <= uf.file_size) =>
                uf.uploaded_bytes = hist.recRep
          /\ uf.fpos = uf.uploaded_bytes
          /\ uf.backoff = 1
    /\ (pc \in {"ret", "raised"} /\ hist.recKind = "conflict") => hist.stopSeen

\* C23: when upload_file has loaded a descriptor with a persisted checkpoint
\* and its initial QueryStatus raises or is answered with a non-success
\* status, the transfer starts (offset and read position) from that
\* checkpoint; it starts from 0 only when no checkpoint was persisted.
C23_StartsFromCheckpoint ==
    (pc = "loop" /\ ~hist.sent /\ hist.q0Failed) =>
        LET N == IF hist.checkpoint = None THEN 0 ELSE hist.checkpoint
        IN  uf.uploaded_bytes = N /\ uf.fpos = N

\* C24: whenever upload_file returns an offset below the file size
\* (cancellation, premature end of the local data, failed recreation of the
\* session after session-not-found), the store still holds a session
\* descriptor under the file's fingerprint.
C24_ShortReturnKeepsDescriptor ==
    (pc = "ret" /\ uf.ret < uf.file_size) => uf.key \in DOMAIN sessions

\* C25: after any sequence of upload_items runs over the same ordered file
\* list, the files marked done are exactly the files of a prefix of the
\* list, a file marked incomplete is the first file of the list that is not
\* done (so there is at most one), and the first file a run passes to
\* upload_file is the first one that was not done when the run started.
C25_DonePrefix ==
    (hist.sameList /\ batch.abs_file_list # <<>>) =>
        LET L == Len(batch.abs_file_list)
            NotDoneBefore(i) ==
                \E j \in 1..(i - 1) : PersistedStatus(ListPath(j)) # "done"
        IN  /\ \E k \in 0..L :
                  { ListPath(i) : i \in { n \in 1..L :
                        PersistedStatus(ListPath(n)) = "done" } }
                    = { ListPath(i) : i \in 1..k }
            /\ \A i \in 1..L :
                  PersistedStatus(ListPath(i)) = "incomplete" =>
                      \E f \in 1..i : ListPath(f) = ListPath(i) /\ ~NotDoneBefore(f)
            /\ hist.tried # <<>> =>
                  /\ StatusOf(hist.startStates, ListPath(hist.tried[1])) # "done"
                  /\ \A j \in 1..(hist.tried[1] - 1) :
                        StatusOf(hist.startStates, ListPath(j)) = "done"

\* C25 witness: a later run over the same list begins at a file behind the
\* first one, the file that an earlier run left incomplete.
C25_Witness ==
    /\ InUploadFile /\ hist.sameList
    /\ hist.tried # <<>> /\ hist.tried[1] > 1
    /\ StatusOf(hist.startStates, ListPath(hist.tried[1])) = "incomplete"

\* C26: once upload_items has found the cancellation flag set before a file,
\* it passes no further file to upload_file in that run, the batch state
\* (in memory, and persisted while the state file exists) of every file it
\* has not started is what it was when the run began, and the run ends with the report "incomplete" unless
\* every listed file is done.
C26_StopBetweenFiles ==
    hist.stopAt # 0 =>
        /\ pc \in {"final", "idle"}
        /\ \A k \in 1..Len(hist.tried) : hist.tried[k] < hist.stopAt
        /\ \A i \in hist.stopAt..Len(batch.abs_file_list) :
              (\A k \in 1..Len(hist.tried) : ListPath(hist.tried[k]) # ListPath(i)) =>
                  /\ StatusOf(batch.file_states, ListPath(i))
                        = StatusOf(hist.startStates, ListPath(i))
                  /\ \/ stateFile = <<>>
                     \/ PersistedStatus(ListPath(i))
                           = StatusOf(hist.startStates, ListPath(i))
        /\ pc = "idle" =>
              \/ hist.report = "incomplete"
              \/ \A i \in 1..Len(batch.abs_file_list) :
                    StatusOf(batch.file_states, ListPath(i)) = "done"

\* C26 witness: a run that uploaded a file, then found the flag set before
\* the next one, has ended; the files from there on have no status.
C26_Witness ==
    /\ pc = "idle" /\ hist.stopAt > 1 /\ hist.tried # <<>>
    /\ hist.report = "incomplete"
    /\ \A i \in hist.stopAt..Len(batch.abs_file_list) :
          PersistedStatus(ListPath(i)) = "none"

\* C27: the retry backoff is always within [1, 30]; it is doubled, capped at
\* 30, by every transient failure (transport exception or unclassified
\* status) and is 1 after every accepted-partial response; the sleep a
\* transient failure takes from any backoff reached is at most 30 seconds.
C27_BackoffBounded ==
    /\ [](/\ uf.backoff >= 1 /\ uf.backoff <= 30
          /\ \A r4 \in Jitter : TransientSleep(uf.backoff, r4) <= 30 * 4)
    /\ [][ /\ (pc = "put" /\ pc' = "loop" /\ hist'.seen \in {"exception", "other"}) =>
                uf'.backoff = Min(2 * uf.backoff, 30)
           /\ (pc = "put" /\ pc' = "loop" /\ hist'.seen = "accepted") =>
                uf'.backoff = 1
           /\ (pc = "query" /\ pc' = "loop") => uf'.backoff = 1 ]_vars

\* C27 witness: the backoff has reached the cap and the transient failure
\* that follows sleeps the full 30 seconds.
C27_Witness ==
    /\ pc = "loop" /\ hist.seen \in {"exception", "other"}
    /\ uf.backoff = 30
    /\ \E r4 \in Jitter : TransientSleep(uf.backoff, r4) = 30 * 4

Uploading == { w \in 1..MaxWorkers : ui.st[w] = "uploading" }

\* C29: at most one worker is inside upload_items at any time, and no step
\* taken while a worker is inside upload_items (a Start press in
\* particular, also after Stop was pressed) creates another worker.
C29_SingleWorker ==
    /\ [](Cardinality(Uploading) <= 1)
    /\ [][ Uploading # {} => ui'.made = ui.made ]_vars

\* C29 witness: Stop was pressed, the worker is still inside upload_items,
\* and a Start press has been turned away with the Busy warning.
C29_Witness ==
    /\ ui.worker # 0 /\ ui.st[ui.worker] = "uploading"
    /\ ui.stopped[ui.worker]
    /\ ui.warned

\* C30: upload_items marks a file done only if a chunk PUT of that file's
\* upload_file was answered 200 or 201, whatever the file's size (0
\* included) and whatever offsets the status queries and accepted-partial
\* responses reported.
C30_DoneOnlyAfterCompletion ==
    [][ (/\ pc = "ret" /\ pc' # "ret"
         /\ StatusOf(batch'.file_states, uf.path) = "done") => hist.completed ]_vars

\* C31: every offset upload_file passes to progress_fn, and the offset it
\* returns, lies within [0, file_size], whatever offsets the service reports
\* at the initial QueryStatus and during the transfer.
C31_OffsetsWithinFile ==
    /\ (pc \in {"loop", "put", "ret", "raised"} /\ hist.pfLast # None) =>
          (hist.pfLast >= 0 /\ hist.pfLast <= uf.file_size)
    /\ pc = "ret" => (uf.ret >= 0 /\ uf.ret <= uf.file_size)

\* C32: when cancellation is never requested and, from some point on (the
\* faults are spent), the service answers status queries truthfully and
\* accepts every chunk that starts at its expected offset, upload_file of a
\* file of at least one byte eventually returns the file size, whatever
\* transport failures, conflicts, auth rejections with a successful refresh
\* and other error statuses came before.
C32_EventuallyReturnsFileSize ==
    (pc \in {"query", "loop", "put"} /\ budget.faults = 0)
        ~> (pc = "ret" /\ uf.ret = uf.file_size)

\* C33: once the cancellation flag is set while upload_file is in its
\* transfer loop, no chunk PUT is started any more (the one in flight is the
\* last), and upload_file leaves the loop, whichever handler the chunk in
\* flight ends in.
C33_StopReturns ==
    /\ [][ (stop /\ pc = "loop") => pc' # "put" ]_vars
    /\ (stop /\ pc \in {"loop", "put"}) ~> (pc \notin {"loop", "put"})

\* C33 witness: the flag was set while a chunk was in flight, the chunk
\* ended in a failure handler, and upload_file has returned at the stop check.
C33_Witness ==
    /\ pc = "ret" /\ hist.stopSeen
    /\ hist.seen \in {"exception", "conflict", "auth", "notfound", "other"}

\* Total size of the listed files before the current one whose status is
\* "done", the ones skipped at lines 239-243 included.
DoneBytesSoFar ==
    SumSizes(SelectSeq(SubSeq(batch.abs_file_list, 1, batch.idx - 1),
                       LAMBDA it : StatusOf(batch.file_states, it.path) = "done"))

SkippedDone ==
    \E i \in 1..(batch.idx - 1) :
        i \notin Tried /\ StatusOf(hist.startStates, ListPath(i)) = "done"

\* C34: on a resumed batch in which some files were already done and were
\* skipped, every uploadedBytes value given to progress_cb during a file's
\* transfer equals the total size of the files done so far (the skipped ones
\* included) plus the current file's confirmed offset, and is at most
\* totalBytes.
C34_ProgressCountsSkipped ==
    (/\ pc \in {"loop", "put", "ret"}
     /\ SkippedDone
     /\ hist.pfLast # None /\ hist.cbLast # None) =>
        /\ hist.cbLast = DoneBytesSoFar + hist.pfLast
        /\ hist.cbLast <= batch.total_bytes

\* The service holds every byte of local file p as it is now: an upload
\* session made for p's present size and modification time and for p's
\* remote destination has taken the whole file.
UploadedAsItIs(p) ==
    \E i \in 1..Len(srv) :
        /\ srv[i].key = _session_key(p, RemoteOf(p), files[p].size)
        /\ srv[i].next = files[p].size

\* C35: upload_items skips a file as already done only if that file, in its
\* current version (same size and modification time), was completely uploaded
\* to the remote destination of the current request.
C35_SkipOnlyCurrentVersion ==
    [][ (pc = "items" /\ pc' = "items" /\ batch'.idx = batch.idx + 1) =>
            UploadedAsItIs(Item.path) ]_vars

\* C36: once a token refresh in the middle of a transfer has succeeded, the
\* later requests of that transfer carry the refreshed token: the chunk PUTs
\* and the status queries, and the CreateSession request when the session is
\* recreated; none carries the token obtained when the file was started.
C36_RefreshedTokenEverywhere ==
    [][ (pc \in {"loop", "put"} /\ uf.token = "t1") =>
            /\ pc' \in {"loop", "put"} => uf'.token = "t1"
            /\ hist'.postToken \in {"", "t1"} ]_vars

====
